---- MODULE Spec2Model ----
\* Contract service: the RabbitMQ consumer that turns rental events into draft
\* contracts (contracts/views.py, contracts/gemini_helper.py) and the
\* sign_contract endpoint that finalises them.
EXTENDS Integers, Sequences, FiniteSets, TLC

\* ---------------------------------------------------------------- bounds
\* messages published to the queue 'generate_contract' in one behaviour
MaxMsgs == 2
\* sign requests received in one behaviour
MaxReqs == 2
\* the clock runs over days 0..MaxDay and, within a day, seconds 0..MaxSec
MaxDay == 1
MaxSec == 1
\* the consumer process is restarted only while fewer deliveries than this were made
MaxDeliveries == 2

\* ---------------------------------------------------------------- values
\* Python None, as returned by fetch_profile / fetch_equipment on failure
None == [kind |-> "none"]
\* a JSON object (dict): a set of <<key, value>> pairs with distinct keys
Dict(m) == [kind |-> "dict", map |-> m]
\* a JSON array (list)
List(s) == [kind |-> "list", items |-> s]
\* a JSON string used as an equipment identifier
Str(s) == [kind |-> "str", id |-> s]

\* dict.get(key, default)
Get(m, k, d) == IF \E p \in m : p[1] = k THEN (CHOOSE p \in m : p[1] = k)[2] ELSE d

\* party names are strings, kept as sequences of characters
AnnLee == <<"A", " ", "L">>
Bob == <<"B">>

\* the record the profile service holds for a user, and a record lacking fields
FirstName(user) == IF user = AnnLee THEN "Ann" ELSE "Bob"
Phone(user) == IF user = AnnLee THEN "555-0101" ELSE "555-0102"
FullProfile(user) == {<<"first_name", FirstName(user)>>, <<"last_name", "x">>, <<"phone", Phone(user)>>}
PartialProfile(user) == {<<"first_name", FirstName(user)>>}
\* the record the equipment service holds for an identifier
EquipmentRecord(eid) == {<<"stuffname", <<"stuff", eid>>>>, <<"brand", "acme">>}

\* bodies the synthesis service may answer with
Bodies == {"html1", "html2"}

\* message bodies published to the queue: malformed JSON, JSON that is not an
\* object, and rental events with a single or a list equipment identifier
Events ==
  { [json |-> "malformed"],
    [json |-> "array"],
    [json |-> "object", rental |-> AnnLee, client |-> Bob, equipment |-> Str("5"),
     start_date |-> "2025-01-01", end_date |-> "2025-01-10", total_price |-> <<100>>],
    [json |-> "object", rental |-> AnnLee, client |-> Bob, equipment |-> List(<<"5", "6">>),
     start_date |-> "2025-01-01", end_date |-> "2025-01-10", total_price |-> <<100>>],
    [json |-> "object", rental |-> Bob, client |-> AnnLee, equipment |-> Str("6"),
     start_date |-> "2025-02-01", end_date |-> "2025-02-02", total_price |-> <<>>] }

\* ---------------------------------------------------------------- state
VARIABLES
  conn,        \* consumer thread: Disconnected, Connected, Consuming, Terminated
  queue,       \* broker: ready messages of 'generate_contract'
  published,   \* number of messages published so far
  unacked,     \* broker: deliveries outstanding to the consumer's channel
  nextTag,     \* channel: next delivery tag
  cb,          \* frame of the running callback (locals and position)
  contracts,   \* Contract table, row i has id i
  acked,       \* delivery tags acknowledged with basic_ack
  nacked,      \* delivery tags rejected or negatively acknowledged
  created,     \* <<delivery tag, contract id>> for every create that returned
  errlog,      \* <<delivery tag, step>> for every logger.error of the callback
  now,         \* wall clock: [day, sec]
  rq,          \* frame of each HTTP worker running sign_contract: its position,
               \* the request, the side effects performed so far (effects), the
               \* status of the row its lookup returned (seen), its locals
  reqs,        \* number of sign requests received so far
  files,       \* MEDIA_ROOT/signatures: set of [path, data]
  keys         \* number of key pairs generate_keys has produced

consumerVars == <<conn, queue, published, unacked, nextTag, cb, acked, nacked, created, errlog>>
signVars == <<now, rq, reqs, files, keys>>
vars == <<conn, queue, published, unacked, nextTag, cb, contracts, acked, nacked, created, errlog,
          now, rq, reqs, files, keys>>

\* channel.basic_qos(prefetch_count=1)
PrefetchCount == 1

\* frame of a callback that is not running
IdleCb == [pc |-> "idle"]

\* ---------------------------------------------------------------- gemini_helper.py
\* GeminiHelper._sanitize_profile
SanitizeProfile(profile) ==
  IF profile.kind = "list"
    THEN (IF Len(profile.items) > 0 THEN profile.items[1] ELSE {})
    ELSE (IF profile.kind = "none" THEN {} ELSE profile.map)

\* equipment_info.get raises AttributeError unless equipment_info is a dict
BuildPromptRaises(equipment_info) == equipment_info.kind # "dict"

\* GeminiHelper._build_prompt: the rendered fields of the prompt
BuildPrompt(contract_data, profile_owner, profile_client, equipment_info) ==
  LET po == SanitizeProfile(profile_owner)
      pc == SanitizeProfile(profile_client)
      eq == equipment_info.map
  IN [ owner_name |-> contract_data.owner_name,
       client_name |-> contract_data.client_name,
       start_date |-> contract_data.start_date,
       end_date |-> contract_data.end_date,
       total_value |-> contract_data.total_value,
       owner_full_name |-> <<Get(po, "first_name", ""), Get(po, "last_name", "")>>,
       owner_phone |-> Get(po, "phone", ""),
       client_full_name |-> <<Get(pc, "first_name", ""), Get(pc, "last_name", "")>>,
       client_phone |-> Get(pc, "phone", ""),
       equipment_name |-> Get(eq, "stuffname", ""),
       equipment_brand |-> Get(eq, "brand", "") ]

\* contract_data.get("total_value") or 0
OrZero(v) == IF v = <<>> \/ v = <<0>> THEN 0 ELSE v[1]

\* the row Contract.objects.create inserts in create_draft_contract
NewContract(id, contract_data, contract_html) ==
  [ id |-> id,
    owner_name |-> contract_data.owner_name,
    client_name |-> contract_data.client_name,
    equipment |-> contract_data.equipment,
    contract_text |-> contract_html,
    status |-> "draft",
    total_value |-> OrZero(contract_data.total_value),
    start_date |-> contract_data.start_date,
    end_date |-> contract_data.end_date,
    signed_date |-> <<>>,
    document |-> <<>> ]

\* ---------------------------------------------------------------- views.py: consumer
\* responses fetch_profile(user) may return
ProfileResponses(user) ==
  { None, Dict(FullProfile(user)), Dict(PartialProfile(user)),
    List(<<FullProfile(user)>>), List(<<>>) }

\* responses fetch_equipment(equipment_id) may return
EquipmentResponses(eid) == { None, Dict(EquipmentRecord(eid)) }

\* a producer publishes a rental event
Publish ==
  /\ published < MaxMsgs
  /\ \E m \in Events : queue' = Append(queue, m)
  /\ published' = published + 1
  /\ UNCHANGED <<conn, unacked, nextTag, cb, contracts, acked, nacked, created, errlog, signVars>>

\* get_rabbitmq_channel returns a connection and a channel
Connect ==
  /\ conn = "Disconnected"
  /\ conn' = "Connected"
  /\ UNCHANGED <<queue, published, unacked, nextTag, cb, contracts, acked, nacked, created, errlog, signVars>>

\* get_rabbitmq_channel raises; rabbitmq_consumer logs the fatal error and ends
ConnectFail ==
  /\ conn = "Disconnected"
  /\ conn' = "Terminated"
  /\ UNCHANGED <<queue, published, unacked, nextTag, cb, contracts, acked, nacked, created, errlog, signVars>>

\* basic_qos(prefetch_count=1), basic_consume, start_consuming
StartConsuming ==
  /\ conn = "Connected"
  /\ conn' = "Consuming"
  /\ UNCHANGED <<queue, published, unacked, nextTag, cb, contracts, acked, nacked, created, errlog, signVars>>

\* basic_qos or basic_consume raises; the finally clause closes the connection
StartConsumingFail ==
  /\ conn = "Connected"
  /\ conn' = "Terminated"
  /\ UNCHANGED <<queue, published, unacked, nextTag, cb, contracts, acked, nacked, created, errlog, signVars>>

\* ConnectionLost followed by a reconnect loop
ConnectionLostReconnect ==
  /\ conn = "Consuming"
  /\ cb.pc = "idle"
  /\ conn' = "Disconnected"
  /\ queue' = [i \in 1..Len(unacked) |-> unacked[i].msg] \o queue
  /\ unacked' = <<>>
  /\ UNCHANGED <<published, nextTag, cb, contracts, acked, nacked, created, errlog, signVars>>

\* start_consuming raises on a connection error; the finally clause closes the
\* connection and the broker returns the outstanding deliveries to the queue
ConnectionLost ==
  /\ conn = "Consuming"
  /\ cb.pc = "idle"
  /\ conn' = "Terminated"
  /\ queue' = [i \in 1..Len(unacked) |-> unacked[i].msg] \o queue
  /\ unacked' = <<>>
  /\ UNCHANGED <<published, nextTag, cb, contracts, acked, nacked, created, errlog, signVars>>

\* Deliver by a broker that ignores the prefetch limit
DeliverNoPrefetch ==
  /\ conn = "Consuming"
  /\ cb.pc = "idle"
  /\ Len(queue) > 0
  /\ unacked' = Append(unacked, [tag |-> nextTag, msg |-> Head(queue)])
  /\ queue' = Tail(queue)
  /\ nextTag' = nextTag + 1
  /\ cb' = [pc |-> "decode", tag |-> nextTag, body |-> Head(queue)]
  /\ UNCHANGED <<conn, published, contracts, acked, nacked, created, errlog, signVars>>

\* the broker delivers the head of the queue; with prefetch_count=1 only while
\* no delivery is outstanding on the channel
Deliver ==
  /\ conn = "Consuming"
  /\ cb.pc = "idle"
  /\ Len(unacked) < PrefetchCount
  /\ Len(queue) > 0
  /\ unacked' = Append(unacked, [tag |-> nextTag, msg |-> Head(queue)])
  /\ queue' = Tail(queue)
  /\ nextTag' = nextTag + 1
  /\ cb' = [pc |-> "decode", tag |-> nextTag, body |-> Head(queue)]
  /\ UNCHANGED <<conn, published, contracts, acked, nacked, created, errlog, signVars>>

\* HandleError with a handler that also rejects the delivery back to the queue
HandleErrorNack(step) ==
  /\ errlog' = errlog \cup {<<cb.tag, step>>}
  /\ nacked' = nacked \cup {cb.tag}
  /\ queue' = [i \in 1..Len(unacked) |-> unacked[i].msg] \o queue
  /\ unacked' = <<>>
  /\ cb' = IdleCb
  /\ UNCHANGED <<conn, published, nextTag, contracts, acked, created, signVars>>

\* HandleError with a handler that retries a failed synthesis call
HandleErrorRetry(step) ==
  /\ errlog' = errlog \cup {<<cb.tag, step>>}
  /\ cb' = IF step = "synthesis" THEN cb ELSE IdleCb
  /\ UNCHANGED <<conn, queue, published, unacked, nextTag, contracts, acked, nacked, created, signVars>>

\* except Exception: logger.error(...); the callback returns
HandleError(step) ==
  /\ errlog' = errlog \cup {<<cb.tag, step>>}
  /\ cb' = IdleCb
  /\ UNCHANGED <<conn, queue, published, unacked, nextTag, contracts, acked, nacked, created, signVars>>

\* json.loads(body) and the data.get calls
Decode ==
  /\ cb.pc = "decode"
  /\ IF cb.body.json = "object"
       THEN /\ cb' = [ pc |-> "fetch_client", tag |-> cb.tag,
                       owner_name |-> cb.body.rental,
                       client_name |-> cb.body.client,
                       equipment_id |-> cb.body.equipment,
                       start_date |-> cb.body.start_date,
                       end_date |-> cb.body.end_date,
                       total_price |-> cb.body.total_price ]
            /\ UNCHANGED <<conn, queue, published, unacked, nextTag, contracts, acked, nacked, created, errlog, signVars>>
       ELSE HandleError("decode")

\* profile_info_client = fetch_profile(client_name)
FetchClient ==
  /\ cb.pc = "fetch_client"
  /\ \E p \in ProfileResponses(cb.client_name) :
       cb' = [f \in DOMAIN cb \cup {"profile_info_client"} |->
                IF f = "pc" THEN "fetch_owner"
                ELSE IF f = "profile_info_client" THEN p ELSE cb[f]]
  /\ UNCHANGED <<conn, queue, published, unacked, nextTag, contracts, acked, nacked, created, errlog, signVars>>

\* profile_info_owner = fetch_profile(owner_name)
FetchOwner ==
  /\ cb.pc = "fetch_owner"
  /\ \E p \in ProfileResponses(cb.owner_name) :
       cb' = [f \in DOMAIN cb \cup {"profile_info_owner"} |->
                IF f = "pc" THEN "fetch_equipment"
                ELSE IF f = "profile_info_owner" THEN p ELSE cb[f]]
  /\ UNCHANGED <<conn, queue, published, unacked, nextTag, contracts, acked, nacked, created, errlog, signVars>>

\* the results of [fetch_equipment(eid) for eid in ids]
RECURSIVE EquipmentLists(_)
EquipmentLists(ids) ==
  IF ids = <<>> THEN {<<>>}
  ELSE {<<r>> \o rest : r \in EquipmentResponses(Head(ids)), rest \in EquipmentLists(Tail(ids))}

\* FetchEquipmentInfo with a list branch that fetches the first identifier only
FetchEquipmentInfoFirstOnly(equipment_id) ==
  IF equipment_id.kind = "list"
    THEN {List(<<r>>) : r \in EquipmentResponses(equipment_id.items[1])}
    ELSE EquipmentResponses(equipment_id.id)

\* equipment_info = [fetch_equipment(eid) ...] if isinstance(equipment_id, list)
\*                  else fetch_equipment(equipment_id)
FetchEquipmentInfo(equipment_id) ==
  IF equipment_id.kind = "list"
    THEN {List(s) : s \in EquipmentLists(equipment_id.items)}
    ELSE EquipmentResponses(equipment_id.id)

FetchEquipment ==
  /\ cb.pc = "fetch_equipment"
  /\ \E e \in FetchEquipmentInfo(cb.equipment_id) :
       cb' = [f \in DOMAIN cb \cup {"equipment_info"} |->
                IF f = "pc" THEN "synthesize"
                ELSE IF f = "equipment_info" THEN e ELSE cb[f]]
  /\ UNCHANGED <<conn, queue, published, unacked, nextTag, contracts, acked, nacked, created, errlog, signVars>>

\* contract_data built by the callback from the decoded event
ContractData(frame) ==
  [ owner_name |-> frame.owner_name,
    client_name |-> frame.client_name,
    equipment |-> frame.equipment_id,
    start_date |-> frame.start_date,
    end_date |-> frame.end_date,
    total_value |-> frame.total_price ]

\* GeminiHelper.generate_contract_html: the prompt handed to generate_content
GenerateContractPrompt(contract_data, profile_owner, profile_client, equipment_info) ==
  BuildPrompt(contract_data, profile_owner, profile_client, equipment_info)

\* frame of the callback inside create_draft_contract, once generate_content
\* has answered
CreateFrame(tag, contract_data, prompt, contract_html) ==
  [pc |-> "create", tag |-> tag, contract_data |-> contract_data,
   prompt |-> prompt, contract_html |-> contract_html]

\* helper.create_draft_contract(contract_data, profile_info_client,
\* profile_info_owner, equipment_info), up to the answer of generate_content
Synthesize ==
  /\ cb.pc = "synthesize"
  /\ IF BuildPromptRaises(cb.equipment_info)
       THEN HandleError("prompt")
       ELSE \/ HandleError("synthesis")
            \/ /\ \E html \in Bodies :
                    cb' = CreateFrame(cb.tag, ContractData(cb),
                                      GenerateContractPrompt(ContractData(cb), cb.profile_info_client,
                                                             cb.profile_info_owner, cb.equipment_info),
                                      html)
               /\ UNCHANGED <<conn, queue, published, unacked, nextTag, contracts, acked, nacked, created, errlog, signVars>>

\* CreateDraft with a create whose failure is swallowed instead of raised
CreateDraftSwallow ==
  /\ cb.pc = "create"
  /\ \/ /\ cb' = [pc |-> "ack", tag |-> cb.tag, contract |-> 0]
        /\ UNCHANGED <<conn, queue, published, unacked, nextTag, contracts, acked, nacked, created, errlog, signVars>>
     \/ /\ contracts' = Append(contracts, NewContract(Len(contracts) + 1, cb.contract_data, cb.contract_html))
        /\ created' = created \cup {<<cb.tag, Len(contracts) + 1>>}
        /\ cb' = [pc |-> "ack", tag |-> cb.tag, contract |-> Len(contracts) + 1]
        /\ UNCHANGED <<conn, queue, published, unacked, nextTag, acked, nacked, errlog, signVars>>

\* CreateDraft with a get_or_create keyed on the parties and the equipment
CreateDraftIdempotent ==
  /\ cb.pc = "create"
  /\ LET same == {i \in 1..Len(contracts) :
                    /\ contracts[i].owner_name = cb.contract_data.owner_name
                    /\ contracts[i].client_name = cb.contract_data.client_name
                    /\ contracts[i].equipment = cb.contract_data.equipment}
         id == IF same = {} THEN Len(contracts) + 1 ELSE CHOOSE i \in same : TRUE
     IN \/ HandleError("store")
        \/ /\ contracts' = IF same = {}
                             THEN Append(contracts, NewContract(id, cb.contract_data, cb.contract_html))
                             ELSE contracts
           /\ created' = created \cup {<<cb.tag, id>>}
           /\ cb' = [pc |-> "ack", tag |-> cb.tag, contract |-> id]
           /\ UNCHANGED <<conn, queue, published, unacked, nextTag, acked, nacked, errlog, signVars>>

\* Contract.objects.create(...) in create_draft_contract
CreateDraft ==
  /\ cb.pc = "create"
  /\ \/ HandleError("store")
     \/ /\ contracts' = Append(contracts, NewContract(Len(contracts) + 1, cb.contract_data, cb.contract_html))
        /\ created' = created \cup {<<cb.tag, Len(contracts) + 1>>}
        /\ cb' = [pc |-> "ack", tag |-> cb.tag, contract |-> Len(contracts) + 1]
        /\ UNCHANGED <<conn, queue, published, unacked, nextTag, acked, nacked, errlog, signVars>>

\* logger.info("Contract created ..."); ch.basic_ack(delivery_tag=method.delivery_tag)
Ack ==
  /\ cb.pc = "ack"
  /\ acked' = acked \cup {cb.tag}
  /\ unacked' = SelectSeq(unacked, LAMBDA d : d.tag # cb.tag)
  /\ cb' = IdleCb
  /\ UNCHANGED <<conn, queue, published, nextTag, contracts, nacked, created, errlog, signVars>>

\* ---------------------------------------------------------------- views.py: sign_contract
\* HTTP workers that serve sign requests concurrently
Workers == {"w1", "w2"}

\* values a caller may send; an empty sequence is a missing or empty field
OwnerNames == {<<>>, AnnLee, Bob}
ClientNames == {<<>>, Bob}
\* contract_text: empty, a text of the caller's own, and the body of a stored draft
ContractTexts == {"", "T1", "html1"}
\* signature_image: empty, no separator, payload with bad padding, and two
\* well-formed data URIs (one with a character b64decode discards)
Images ==
  { <<>>,
    <<"h", "a">>,
    <<"h", ",", "a">>,
    <<"h", ",", "a", "!", "a", "a", "a">>,
    <<"h", ",", "b", "b", "b", "b">> }

\* the request a caller sends for the stored (AnnLee, Bob) contract, and the
\* requests that differ from it in at most one field
BaseRequest ==
  [ owner_name |-> AnnLee, client_name |-> Bob, contract_text |-> "T1",
    signature_image |-> <<"h", ",", "a", "!", "a", "a", "a">> ]
Requests ==
  { r \in [ owner_name : OwnerNames, client_name : ClientNames,
            contract_text : ContractTexts, signature_image : Images ] :
      Cardinality({f \in DOMAIN r : r[f] # BaseRequest[f]}) <= 1 }

\* now() advances by a second, or to the next day
Tick ==
  /\ \/ /\ now.sec < MaxSec
        /\ now' = [day |-> now.day, sec |-> now.sec + 1]
     \/ /\ now.day < MaxDay
        /\ now' = [day |-> now.day + 1, sec |-> 0]
  /\ UNCHANGED <<consumerVars, contracts, rq, reqs, files, keys>>

\* MissingFields with a check that leaves signature_image out
MissingFieldsNoImage(owner_name, client_name, contract_text, signature_image_data) ==
  owner_name = <<>> \/ client_name = <<>> \/ contract_text = ""

\* not all([owner_name, client_name, contract_text, signature_image_data])
MissingFields(owner_name, client_name, contract_text, signature_image_data) ==
  owner_name = <<>> \/ client_name = <<>> \/ contract_text = "" \/ signature_image_data = <<>>

\* Matching with a query that filters on the owner alone
MatchingOwnerOnly(store, owner_name, client_name) ==
  {i \in 1..Len(store) : store[i].owner_name = owner_name}

\* Contract.objects.get(owner_name=..., client_name=...): the matching rows
Matching(store, owner_name, client_name) ==
  {i \in 1..Len(store) : store[i].owner_name = owner_name /\ store[i].client_name = client_name}

\* GetContractOr404 with a query that takes the first of several matches
GetContractOr404First(store, owner_name, client_name) ==
  LET m == Matching(store, owner_name, client_name)
  IN IF m = {} THEN [ok |-> FALSE, error |-> "Contract not found"]
     ELSE [ok |-> TRUE, contract |-> store[CHOOSE i \in m : \A j \in m : i <= j]]

\* get_contract_or_404: the row, "Contract not found", or the
\* MultipleObjectsReturned that Contract.objects.get raises
GetContractOr404(store, owner_name, client_name) ==
  LET m == Matching(store, owner_name, client_name)
  IN IF m = {} THEN [ok |-> FALSE, error |-> "Contract not found"]
     ELSE IF Cardinality(m) > 1
       THEN [ok |-> FALSE, error |-> "get() returned more than one Contract"]
     ELSE [ok |-> TRUE, contract |-> store[CHOOSE i \in m : TRUE]]

\* FirstComma with a split that takes a string without "," as an empty payload
FirstCommaLenient(str) ==
  IF \E i \in 1..Len(str) : str[i] = ","
    THEN CHOOSE i \in 1..Len(str) : str[i] = "," /\ \A j \in 1..(i - 1) : str[j] # ","
    ELSE Len(str) + 1

\* position of the first "," of a string, 0 when there is none
FirstComma(str) ==
  IF \E i \in 1..Len(str) : str[i] = ","
    THEN CHOOSE i \in 1..Len(str) : str[i] = "," /\ \A j \in 1..(i - 1) : str[j] # ","
    ELSE 0

\* characters of the base64 alphabet; b64decode discards the others
B64Alphabet == {"a", "b"}
IsB64Char(ch) == ch \in B64Alphabet

\* base64.b64decode(encoded) for payloads without padding characters: the data
\* characters must come in groups of four
B64Decode(encoded) ==
  LET data == SelectSeq(encoded, IsB64Char)
  IN IF Len(data) % 4 = 0 THEN [ok |-> TRUE, bytes |-> data] ELSE [ok |-> FALSE]

\* header, encoded = signature_image_data.split(",", 1); b64decode(encoded)
DecodeImage(signature_image_data) ==
  LET i == FirstComma(signature_image_data)
  IN IF i = 0 THEN [ok |-> FALSE]
     ELSE B64Decode(SubSeq(signature_image_data, i + 1, Len(signature_image_data)))

\* owner_name.replace(' ', '_')
ReplaceSpaces(str) == [i \in 1..Len(str) |-> IF str[i] = " " THEN "_" ELSE str[i]]

\* os.path.join('signatures', f"{owner}_{now().strftime('%Y%m%d%H%M%S')}.png")
ImagePath(owner_name, t) ==
  [dir |-> "signatures", owner |-> ReplaceSpaces(owner_name), stamp |-> <<t.day, t.sec>>]

\* now().date()
Date(t) == <<t.day>>

\* sign_contract lines 148-150 on the in-memory Contract
MarkSigned(contract, signed_date, path) ==
  [contract EXCEPT !.signed_date = signed_date, !.status = "signed", !.document = path]

\* Save with update_fields=["status"]
SaveStatusOnly(store, contract) == [store EXCEPT ![contract.id].status = contract.status]
\* Save with a conditional update: the row is written only while it is a draft
SaveIfDraft(store, contract) ==
  IF store[contract.id].status = "draft" THEN [store EXCEPT ![contract.id] = contract] ELSE store

\* contract.save(): every field of the in-memory object is written to its row
Save(store, contract) == [store EXCEPT ![contract.id] = contract]

\* a file written with open(image_path, "wb") replaces what the path held
WriteFile(fs, path, data) == {f \in fs : f.path # path} \cup {[path |-> path, data |-> data]}

\* utils.generate_keys: a fresh key pair on every call
GenerateKeys(n) == [private_key |-> <<"priv", n + 1>>, public_key |-> <<"pub", n + 1>>]
\* utils.sign_message: the signature of a text under a private key
SignMessage(contract_text, private_key) == <<"sig", contract_text, private_key>>

ErrorResponse(code, msg) == [status |-> code, error |-> msg]

\* frame of a worker that serves no request
IdleRq == [pc |-> "idle"]

\* the worker leaves sign_contract with a response
Respond(w, response) ==
  rq' = [rq EXCEPT ![w] = [pc |-> "done", request |-> rq[w].request,
                           effects |-> rq[w].effects, seen |-> rq[w].seen,
                           response |-> response]]

\* a request arrives; lines 134-140 read and validate its fields
SignRequest(w) ==
  /\ rq[w].pc \in {"idle", "done"}
  /\ reqs < MaxReqs
  /\ reqs' = reqs + 1
  /\ \E request \in Requests :
          IF MissingFields(request.owner_name, request.client_name,
                           request.contract_text, request.signature_image)
            THEN rq' = [rq EXCEPT ![w] = [pc |-> "done", request |-> request, effects |-> {},
                                          seen |-> "none",
                                          response |-> ErrorResponse(400, "Missing required fields")]]
            ELSE rq' = [rq EXCEPT ![w] = [pc |-> "lookup", request |-> request, effects |-> {}]]
  /\ UNCHANGED <<consumerVars, contracts, now, files, keys>>

\* contract = get_contract_or_404(owner_name, client_name)
SignLookup(w) ==
  /\ rq[w].pc = "lookup"
  /\ LET found == GetContractOr404(contracts, rq[w].request.owner_name, rq[w].request.client_name)
     IN IF found.ok
          THEN rq' = [rq EXCEPT ![w] = [pc |-> "image", request |-> rq[w].request,
                                        effects |-> {"lookup"}, seen |-> found.contract.status,
                                        contract |-> found.contract]]
          ELSE rq' = [rq EXCEPT ![w] = [pc |-> "done", request |-> rq[w].request,
                                        effects |-> {"lookup"}, seen |-> "none",
                                        response |-> ErrorResponse(500, found.error)]]
  /\ UNCHANGED <<consumerVars, contracts, now, reqs, files, keys>>

\* signature_image_path = save_signature_image(owner_name, signature_image_data)
SignSaveImage(w) ==
  /\ rq[w].pc = "image"
  /\ LET image == DecodeImage(rq[w].request.signature_image)
         path == ImagePath(rq[w].request.owner_name, now)
     IN IF image.ok
          THEN /\ files' = WriteFile(files, path, image.bytes)
               /\ rq' = [rq EXCEPT ![w] = [pc |-> "keys", request |-> rq[w].request,
                                           effects |-> rq[w].effects \cup {"file"},
                                           seen |-> rq[w].seen,
                                           contract |-> rq[w].contract,
                                           signature_image_path |-> path]]
          ELSE /\ Respond(w, ErrorResponse(500, "Invalid base64 image data"))
               /\ UNCHANGED files
  /\ UNCHANGED <<consumerVars, contracts, now, reqs, keys>>

\* SignCompute with a handler that also stores the caller's contract_text
SignComputeStoreText(w) ==
  /\ rq[w].pc = "keys"
  /\ LET pair == GenerateKeys(keys)
     IN rq' = [rq EXCEPT ![w] = [pc |-> "save", request |-> rq[w].request,
                                 effects |-> rq[w].effects \cup {"keys"},
                                 seen |-> rq[w].seen,
                                 contract |-> [MarkSigned(rq[w].contract, Date(now), rq[w].signature_image_path)
                                                 EXCEPT !.contract_text = rq[w].request.contract_text],
                                 signature_image_path |-> rq[w].signature_image_path,
                                 signature |-> SignMessage(rq[w].request.contract_text, pair.private_key),
                                 public_key |-> pair.public_key]]
  /\ keys' = keys + 1
  /\ UNCHANGED <<consumerVars, contracts, now, reqs, files>>

\* generate_keys, sign_message, and the assignments to the in-memory Contract
SignCompute(w) ==
  /\ rq[w].pc = "keys"
  /\ LET pair == GenerateKeys(keys)
     IN rq' = [rq EXCEPT ![w] = [pc |-> "save", request |-> rq[w].request,
                                 effects |-> rq[w].effects \cup {"keys"},
                                 seen |-> rq[w].seen,
                                 contract |-> MarkSigned(rq[w].contract, Date(now), rq[w].signature_image_path),
                                 signature_image_path |-> rq[w].signature_image_path,
                                 signature |-> SignMessage(rq[w].request.contract_text, pair.private_key),
                                 public_key |-> pair.public_key]]
  /\ keys' = keys + 1
  /\ UNCHANGED <<consumerVars, contracts, now, reqs, files>>

\* SignedResponse with a message taken from the stored contract
SignedResponseStoredText(frame) ==
  [ status |-> 200,
    message |-> frame.contract.contract_text,
    owner_name |-> frame.request.owner_name,
    client_name |-> frame.request.client_name,
    signature |-> frame.signature,
    public_key |-> frame.public_key,
    signature_image_url |-> frame.signature_image_path,
    contract_id |-> frame.contract.id,
    contract_status |-> frame.contract.status,
    signed_date |-> frame.contract.signed_date,
    total_value |-> frame.contract.total_value,
    start_date |-> frame.contract.start_date,
    end_date |-> frame.contract.end_date ]

\* the body of the 200 response, lines 153-166
SignedResponse(frame) ==
  [ status |-> 200,
    message |-> frame.request.contract_text,
    owner_name |-> frame.request.owner_name,
    client_name |-> frame.request.client_name,
    signature |-> frame.signature,
    public_key |-> frame.public_key,
    signature_image_url |-> frame.signature_image_path,
    contract_id |-> frame.contract.id,
    contract_status |-> frame.contract.status,
    signed_date |-> frame.contract.signed_date,
    total_value |-> frame.contract.total_value,
    start_date |-> frame.contract.start_date,
    end_date |-> frame.contract.end_date ]

\* contract.save() and the 200 response
SignSave(w) ==
  /\ rq[w].pc = "save"
  /\ contracts' = Save(contracts, rq[w].contract)
  /\ rq' = [rq EXCEPT ![w] = [pc |-> "done", request |-> rq[w].request,
                              effects |-> rq[w].effects \cup {"save"},
                              seen |-> rq[w].seen,
                              response |-> SignedResponse(rq[w])]]
  /\ UNCHANGED <<consumerVars, now, reqs, files, keys>>

SignNext ==
  \/ Tick
  \/ \E w \in Workers : SignRequest(w) \/ SignLookup(w) \/ SignSaveImage(w) \/ SignCompute(w) \/ SignSave(w)

\* ch.basic_ack raises because the connection has dropped: the except clause
\* logs it, and the broker never receives the acknowledgment
AckFail ==
  /\ cb.pc = "ack"
  /\ HandleError("ack")

ConsumerNext ==
  \/ Publish \/ Connect \/ ConnectFail \/ StartConsuming \/ StartConsumingFail
  \/ ConnectionLost \/ Deliver
  \/ Decode \/ FetchClient \/ FetchOwner \/ FetchEquipment \/ Synthesize \/ CreateDraft
  \/ Ack \/ AckFail

Init ==
  /\ conn = "Disconnected"
  /\ queue = <<>>
  /\ published = 0
  /\ unacked = <<>>
  /\ nextTag = 1
  /\ cb = IdleCb
  /\ contracts = <<>>
  /\ acked = {}
  /\ nacked = {}
  /\ created = {}
  /\ errlog = {}
  /\ now = [day |-> 0, sec |-> 0]
  /\ rq = [w \in Workers |-> IdleRq]
  /\ reqs = 0
  /\ files = {}
  /\ keys = 0

Next == ConsumerNext

Spec == Init /\ [][Next]_vars

\* the service process is started again after its consumer thread has ended:
\* the module is imported anew and a fresh consumer thread starts; delivery tags
\* stay distinct across channels so that each one names one delivery
Restart ==
  /\ conn = "Terminated"
  /\ cb.pc = "idle"
  /\ nextTag <= MaxDeliveries
  /\ conn' = "Disconnected"
  /\ UNCHANGED <<queue, published, unacked, nextTag, cb, contracts, acked, nacked, created, errlog, signVars>>

RedeliveryNext == ConsumerNext \/ Restart

\* the consumer pipeline over several runs of the service process
RedeliverySpec == Init /\ [][RedeliveryNext]_vars

\* ---------------------------------------------------------------- the signing endpoint
\* rental events whose pipeline run can end in a draft
DraftEvents == {e \in Events : e.json = "object" /\ e.equipment.kind = "str"}

\* contract_data the callback builds for an event
EventData(e) ==
  [ owner_name |-> e.rental, client_name |-> e.client, equipment |-> e.equipment,
    start_date |-> e.start_date, end_date |-> e.end_date, total_value |-> e.total_price ]

\* Contract tables an earlier run of the service has left behind
Stores ==
  {<<>>} \cup {<<NewContract(1, EventData(e), "html1")>> : e \in DraftEvents}

\* callback frame of a consumer that is about to store the draft of an event
\* whose fetches all succeeded
InFlight(e) ==
  CreateFrame(1, EventData(e),
              GenerateContractPrompt(EventData(e), Dict(FullProfile(e.client)),
                                     Dict(FullProfile(e.rental)),
                                     Dict(EquipmentRecord(e.equipment.id))),
              "html2")

\* the service runs on a Contract table filled by an earlier run; its consumer
\* is waiting for messages or is about to store the draft of its first delivery
InitSign ==
  /\ conn = "Consuming"
  /\ queue = <<>>
  /\ \/ /\ nextTag = 1
        /\ published = 0
        /\ unacked = <<>>
        /\ cb = IdleCb
     \/ \E e \in DraftEvents :
          /\ nextTag = 2
          /\ published = 1
          /\ unacked = <<[tag |-> 1, msg |-> e]>>
          /\ cb = InFlight(e)
  /\ contracts \in Stores
  /\ acked = {}
  /\ nacked = {}
  /\ created = {}
  /\ errlog = {}
  /\ now = [day |-> 0, sec |-> 0]
  /\ rq = [w \in Workers |-> IdleRq]
  /\ reqs = 0
  /\ files = {}
  /\ keys = 0

\* the consumer's steps that touch the Contract table, and the sign requests
SignSpecNext == CreateDraft \/ Ack \/ SignNext

SignSpec == InitSign /\ [][SignSpecNext]_vars

\* ---------------------------------------------------------------- properties
\* tags of the deliveries whose callback has returned
Returned == {t \in 1..(nextTag - 1) : cb.pc = "idle" \/ cb.tag # t}
Logged(t) == \E e \in errlog : e[1] = t

\* C1: a delivery is acknowledged only in a step before which
\* Contract.objects.create has returned for that same delivery and its row is
\* in the Contract table; no acknowledgment comes before or without the draft.
C1_AckOnlyAfterDraft ==
  [][\A t \in acked' \ acked :
       \E p \in created : /\ p[1] = t
                          /\ p[2] \in 1..Len(contracts)
                          /\ contracts[p[2]].id = p[2]]_vars

C1_Witness == \E t \in acked : \E p \in created : p[1] = t /\ p[2] \in 1..Len(contracts)

\* C2: a callback that fails at any step logs the error and returns to the
\* consumer loop without raising: the delivery is neither acknowledged nor
\* rejected or requeued by the consumer and stays outstanding on the channel.
C2_FailureHandling ==
  /\ [](\A t \in Returned :
          /\ (t \in acked) # Logged(t)
          /\ Logged(t) => /\ t \notin nacked
                          /\ conn = "Consuming" => \E i \in 1..Len(unacked) : unacked[i].tag = t)
  /\ [][errlog' # errlog =>
          /\ cb'.pc = "idle"
          /\ conn' = conn
          /\ acked' = acked
          /\ nacked' = nacked
          /\ unacked' = unacked
          /\ queue' = queue]_vars

C2_Witness ==
  /\ 1 \in acked
  /\ <<2, "synthesis">> \in errlog
  /\ cb.pc = "idle"
  /\ conn = "Consuming"

\* a fetch of the running callback has failed: the profile or the single
\* equipment record is None
AnyAbsent(frame) ==
  \/ frame.profile_info_client = None
  \/ frame.profile_info_owner = None
  \/ frame.equipment_info = None

\* C5: a failed owner, client or equipment fetch never aborts the pipeline:
\* the callback still reaches the synthesis call, with the absent record's
\* fields rendered as empty strings in the prompt.
C5_FetchFailureNeverAborts ==
  [][(cb.pc = "synthesize" /\ AnyAbsent(cb) /\ cb' # cb) =>
       \/ <<cb.tag, "synthesis">> \in errlog'
       \/ /\ cb'.pc = "create"
          /\ cb.equipment_info = None =>
               cb'.prompt.equipment_name = "" /\ cb'.prompt.equipment_brand = ""]_vars

\* every fetch of the running callback has succeeded
AllFetched(frame) ==
  /\ frame.profile_info_client # None
  /\ frame.profile_info_owner # None
  /\ frame.equipment_info # None
  /\ frame.equipment_info.kind = "list" =>
       \A i \in 1..Len(frame.equipment_info.items) : frame.equipment_info.items[i] # None

\* C6: for an event with a single or a list equipment identifier whose fetches
\* all succeed, the callback fails only if the synthesis call fails, and the
\* create that follows adds exactly one draft holding the synthesized body and
\* the equipment as received, after which the delivery is acknowledged.
C6_OneDraftPerEvent ==
  [][/\ (cb.pc = "synthesize" /\ AllFetched(cb) /\ errlog' # errlog) =>
          <<cb.tag, "synthesis">> \in errlog'
     /\ (cb.pc = "create" /\ contracts' # contracts) =>
          /\ Len(contracts') = Len(contracts) + 1
          /\ contracts'[Len(contracts')].status = "draft"
          /\ contracts'[Len(contracts')].contract_text = cb.contract_html
          /\ contracts'[Len(contracts')].equipment = cb.contract_data.equipment
          /\ cb'.pc = "ack"
     /\ cb.pc = "ack" => (cb' # cb => cb.tag \in acked')]_vars

\* C3: a signed contract never changes again, and a save that finds its row
\* already signed is refused instead of answered with 200.
C3_SignedOnce ==
  [][/\ \A i \in 1..Len(contracts) :
          contracts[i].status = "signed" =>
            /\ contracts'[i].status = contracts[i].status
            /\ contracts'[i].signed_date = contracts[i].signed_date
            /\ contracts'[i].document = contracts[i].document
     /\ \A w \in Workers :
          (rq[w].pc = "save" /\ rq'[w].pc = "done"
             /\ contracts[rq[w].contract.id].status = "signed") =>
            rq'[w].response.status # 200]_vars

FullyDraft(c) ==
  c.status = "draft" /\ c.contract_text \in Bodies /\ c.signed_date = <<>> /\ c.document = <<>>
FullySigned(c) ==
  c.status = "signed" /\ c.contract_text \in Bodies /\ c.signed_date # <<>> /\ c.document # <<>>

\* C4: every row of the Contract table is fully draft or fully signed, whatever
\* drafts were created and whatever sign requests succeeded or failed.
C4_NoPartialSigning ==
  \A i \in 1..Len(contracts) : FullyDraft(contracts[i]) \/ FullySigned(contracts[i])

C4_Witness ==
  /\ \E i \in 1..Len(contracts) : FullySigned(contracts[i])
  /\ \E i \in 1..Len(contracts) : FullyDraft(contracts[i])
  /\ cb.pc = "idle" /\ created # {}
  /\ \E w \in Workers : rq[w].pc = "done" /\ rq[w].response.status # 200

\* the image has no "," or the text after its first "," does not decode
Malformed(image) ==
  \/ \A i \in 1..Len(image) : image[i] # ","
  \/ ~DecodeImage(image).ok

SideEffects == {"file", "keys", "save"}

\* C7: a request that has located its contract and carries a malformed
\* signature_image is answered "Invalid base64 image data" in the step that
\* decodes the image, with no file written, no key pair generated and the
\* Contract table untouched; no request with a malformed image ever writes a
\* file, generates keys or saves a contract.
C7_MalformedImage ==
  /\ [](\A w \in Workers :
          (rq[w].pc # "idle" /\ Malformed(rq[w].request.signature_image)) =>
            /\ rq[w].effects \cap SideEffects = {}
            /\ rq[w].pc \in {"lookup", "image", "done"}
            /\ rq[w].pc = "done" => rq[w].response.status # 200)
  /\ [][\A w \in Workers :
          (rq[w].pc = "image" /\ rq'[w] # rq[w] /\ Malformed(rq[w].request.signature_image)) =>
            /\ rq'[w].pc = "done"
            /\ rq'[w].response = [status |-> 500, error |-> "Invalid base64 image data"]
            /\ files' = files
            /\ keys' = keys
            /\ contracts' = contracts]_vars

C7_Witness ==
  \E w \in Workers :
    /\ rq[w].pc = "done"
    /\ rq[w].request.signature_image = <<"h", "a">>
    /\ rq[w].response.status = 500
    /\ rq[w].response.error = "Invalid base64 image data"
    /\ \E i \in 1..Len(contracts) : contracts[i].owner_name = rq[w].request.owner_name

\* a required field of the request is missing or empty
AnyFieldEmpty(request) ==
  \/ Len(request.owner_name) = 0
  \/ Len(request.client_name) = 0
  \/ request.contract_text = ""
  \/ Len(request.signature_image) = 0

\* C8: a request with a missing or empty required field is answered 400
\* "Missing required fields" without any lookup, image write, key generation
\* or contract save.
C8_MissingFields ==
  \A w \in Workers :
    (rq[w].pc # "idle" /\ AnyFieldEmpty(rq[w].request)) =>
      /\ rq[w].pc = "done"
      /\ rq[w].response = [status |-> 400, error |-> "Missing required fields"]
      /\ rq[w].effects = {}

C8_Witness ==
  \E w \in Workers :
    /\ rq[w].pc = "done"
    /\ rq[w].request.signature_image = <<>>
    /\ rq[w].response.status = 400
    /\ Len(contracts) > 0

\* no row of the Contract table is between these two parties
NoContractFor(owner_name, client_name) ==
  ~\E i \in 1..Len(contracts) :
     contracts[i].owner_name = owner_name /\ contracts[i].client_name = client_name

\* C9: a lookup that finds no contract for the party pair ends the request
\* with "Contract not found"; the request has written no image, generated no
\* key pair and created or changed no contract.
C9_NotFound ==
  /\ [](\A w \in Workers :
          (rq[w].pc = "done" /\ rq[w].response.status = 500
             /\ rq[w].response.error = "Contract not found") =>
            rq[w].effects = {"lookup"})
  /\ [][\A w \in Workers :
          (rq[w].pc = "lookup" /\ rq'[w] # rq[w]
             /\ NoContractFor(rq[w].request.owner_name, rq[w].request.client_name)) =>
            /\ rq'[w].pc = "done"
            /\ rq'[w].response = [status |-> 500, error |-> "Contract not found"]
            /\ files' = files
            /\ keys' = keys
            /\ contracts' = contracts]_vars

C9_Witness ==
  \E w \in Workers :
    /\ rq[w].pc = "done"
    /\ rq[w].response.status = 500
    /\ rq[w].response.error = "Contract not found"
    /\ rq[w].request.owner_name = Bob
    /\ Len(contracts) > 0

\* two workers have answered 200 for the same contract, and both looked it up
\* while it was a draft: neither had saved when the other passed the lookup
BothSigned(w1, w2) ==
  /\ w1 # w2
  /\ rq[w1].pc = "done" /\ rq[w1].response.status = 200
  /\ rq[w2].pc = "done" /\ rq[w2].response.status = 200
  /\ rq[w1].seen = "draft" /\ rq[w2].seen = "draft"
  /\ rq[w1].response.contract_id = rq[w2].response.contract_id

Stored(path) == \E f \in files : f.path = path
Referenced(path) == \E i \in 1..Len(contracts) : contracts[i].document = path

\* C10 as stated: after two concurrent successful sign requests for one contract, the
\* contract carries the document and signed_date of one of them and the image
\* of the other is stored but referenced by no contract.
C10_OrphanedImage ==
  \A w1, w2 \in Workers :
    BothSigned(w1, w2) =>
      \E w \in {w1, w2} :
        LET other == CHOOSE o \in {w1, w2} : o # w
            c == contracts[rq[w].response.contract_id]
        IN /\ c.status = "signed"
           /\ c.document = rq[w].response.signature_image_url
           /\ c.signed_date = rq[w].response.signed_date
           /\ Stored(rq[other].response.signature_image_url)
           /\ ~Referenced(rq[other].response.signature_image_url)

\* C10 amended: every save writes the saver's document and signed_date over
\* the row, whatever the row holds; after two concurrent successful requests for one
\* contract the row carries the path of one of them and both paths are stored;
\* when the paths differ, the other image is stored and the contract does not
\* reference it.
C10_LastWriteWins ==
  /\ [][\A w \in Workers :
          (rq[w].pc = "save" /\ rq'[w] # rq[w]) =>
            /\ rq'[w].pc = "done"
            /\ rq'[w].response.status = 200
            /\ contracts'[rq[w].contract.id].status = "signed"
            /\ contracts'[rq[w].contract.id].document = rq[w].signature_image_path
            /\ contracts'[rq[w].contract.id].signed_date = rq[w].contract.signed_date]_vars
  /\ [](\A w1, w2 \in Workers :
          BothSigned(w1, w2) =>
            LET c == contracts[rq[w1].response.contract_id]
                p1 == rq[w1].response.signature_image_url
                p2 == rq[w2].response.signature_image_url
            IN /\ c.status = "signed"
               /\ c.document \in {p1, p2}
               /\ Stored(p1) /\ Stored(p2)
               /\ p1 # p2 => \E p \in {p1, p2} : p # c.document /\ Stored(p))

\* both requests have passed the lookup of the same draft and hold different
\* image paths, and neither has saved yet
C10_Witness ==
  \E w1, w2 \in Workers :
    /\ w1 # w2
    /\ rq[w1].pc = "save" /\ rq[w2].pc = "save"
    /\ rq[w1].contract.id = rq[w2].contract.id
    /\ rq[w1].signature_image_path # rq[w2].signature_image_path
    /\ contracts[rq[w1].contract.id].status = "draft"

\* C11: no step changes the contract_text of a stored row: whatever text the
\* sign requests carry and however they interleave, every row keeps the body
\* create_draft_contract wrote.
C11_TextFixedAtCreation ==
  [][\A i \in 1..Len(contracts) :
       contracts'[i].contract_text = contracts[i].contract_text]_vars

\* two requests that raced on one contract have signed it with a text that is
\* not the stored body
C11_Witness ==
  \E w1, w2 \in Workers :
    /\ BothSigned(w1, w2)
    /\ rq[w1].response.message # contracts[rq[w1].response.contract_id].contract_text
    /\ contracts[rq[w1].response.contract_id].contract_text \in Bodies

\* C12: for an event whose equipment is a list of N identifiers, the aggregated
\* equipment_info is a list of N entries in the identifiers' order, entry i
\* being the record of identifier i or None when its fetch failed.
C12_EquipmentListInOrder ==
  (cb.pc = "synthesize" /\ cb.equipment_id.kind = "list") =>
    /\ cb.equipment_info.kind = "list"
    /\ Len(cb.equipment_info.items) = Len(cb.equipment_id.items)
    /\ \A i \in 1..Len(cb.equipment_id.items) :
         \/ cb.equipment_info.items[i] = [kind |-> "none"]
         \/ /\ cb.equipment_info.items[i].kind = "dict"
            /\ <<"stuffname", <<"stuff", cb.equipment_id.items[i]>>>> \in cb.equipment_info.items[i].map

\* the first fetch of a two-identifier list failed and the second succeeded
C12_Witness ==
  /\ cb.pc = "synthesize"
  /\ cb.equipment_id.kind = "list"
  /\ Len(cb.equipment_id.items) = 2
  /\ cb.equipment_info.items[1] = [kind |-> "none"]
  /\ cb.equipment_info.items[2].kind = "dict"

\* C13: the broker never has more than one delivery outstanding to the
\* consumer, and while a callback runs that delivery is the one it processes.
C13_OneInFlight ==
  /\ Len(unacked) <= 1
  /\ cb.pc # "idle" => (Len(unacked) = 1 /\ unacked[1].tag = cb.tag)
  /\ \A t \in 1..(nextTag - 1) : t \in Returned \/ t = cb.tag

\* a callback is running while another message waits in the queue
C13_Witness ==
  /\ cb.pc \notin {"idle", "decode"}
  /\ Len(unacked) = 1
  /\ Len(queue) > 0

\* the moves of the consumer's lifecycle
Lifecycle ==
  { <<"Disconnected", "Connected">>, <<"Connected", "Consuming">>,
    <<"Disconnected", "Terminated">>, <<"Connected", "Terminated">>,
    <<"Consuming", "Terminated">> }

\* C14: the consumer moves Disconnected -> Connected -> Consuming and from any
\* of them to Terminated on a connection failure; deliveries are taken and
\* processed only while Consuming; once terminated its connection is closed
\* (no delivery outstanding) and it never reconnects or processes a message.
C14_NoReconnect ==
  /\ [](conn = "Terminated" => (unacked = <<>> /\ cb.pc = "idle"))
  /\ [][/\ conn' # conn => <<conn, conn'>> \in Lifecycle
        /\ (cb' # cb \/ nextTag' # nextTag) => (conn = "Consuming" /\ conn' = "Consuming")
        /\ conn = "Terminated" =>
             /\ conn' = "Terminated"
             /\ cb' = cb
             /\ nextTag' = nextTag
             /\ contracts' = contracts
             /\ acked' = acked]_vars

\* the consumer has terminated after taking a delivery, with messages left
C14_Witness ==
  /\ conn = "Terminated"
  /\ nextTag > 1
  /\ Len(queue) > 0

\* C15: a delivery whose synthesis call failed has left the callback at once:
\* the call is not repeated, no Contract is created for it and it is not
\* acknowledged.
C15_SynthesisNotRetried ==
  /\ [](\A t \in 1..(nextTag - 1) :
          <<t, "synthesis">> \in errlog =>
            /\ t \in Returned
            /\ t \notin acked
            /\ ~\E p \in created : p[1] = t)
  /\ [][(cb.pc = "synthesize" /\ <<cb.tag, "synthesis">> \in errlog') =>
          /\ cb'.pc = "idle"
          /\ contracts' = contracts
          /\ created' = created
          /\ acked' = acked]_vars

C15_Witness ==
  /\ <<1, "synthesis">> \in errlog
  /\ contracts = <<>>
  /\ acked = {}
  /\ cb.pc = "idle"

\* the fields _build_prompt renders from a fetched profile
ProfileSection(profile) ==
  [ full_name |-> <<Get(SanitizeProfile(profile), "first_name", ""),
                    Get(SanitizeProfile(profile), "last_name", "")>>,
    phone |-> Get(SanitizeProfile(profile), "phone", "") ]

\* C16: the prompt's owner section is rendered from the profile fetched for the
\* event's rental and its client section from the profile fetched for the
\* event's client.
C16_ProfilesNotInterchanged ==
  [][(cb.pc = "synthesize" /\ cb'.pc = "create") =>
       /\ cb'.prompt.owner_full_name = ProfileSection(cb.profile_info_owner).full_name
       /\ cb'.prompt.owner_phone = ProfileSection(cb.profile_info_owner).phone
       /\ cb'.prompt.client_full_name = ProfileSection(cb.profile_info_client).full_name
       /\ cb'.prompt.client_phone = ProfileSection(cb.profile_info_client).phone]_vars

\* C19: while the consumer stays connected after a failed delivery, that
\* delivery remains the one outstanding on the channel and nothing more is
\* delivered or processed: the messages behind it only queue up.
C19_FailedDeliveryBlocks ==
  /\ [](\A t \in 1..(nextTag - 1) :
          (Logged(t) /\ conn = "Consuming") =>
            /\ Len(unacked) = 1 /\ unacked[1].tag = t
            /\ t \notin acked
            /\ cb.pc = "idle"
            /\ nextTag = t + 1)
  /\ [][((\E t \in 1..(nextTag - 1) : Logged(t)) /\ conn = "Consuming" /\ conn' = "Consuming") =>
          /\ nextTag' = nextTag
          /\ cb' = cb
          /\ unacked' = unacked
          /\ contracts' = contracts
          /\ Len(queue') >= Len(queue)
          /\ SubSeq(queue', 1, Len(queue)) = queue]_vars

\* a delivery has failed and a later message waits behind it on the open channel
C19_Witness ==
  /\ conn = "Consuming"
  /\ Logged(1)
  /\ Len(unacked) = 1
  /\ Len(queue) > 0

\* two draft rows of the Contract table are between these two parties
TwoDraftsFor(owner_name, client_name) ==
  \E i, j \in 1..Len(contracts) :
    /\ i # j
    /\ contracts[i].owner_name = owner_name /\ contracts[i].client_name = client_name
    /\ contracts[j].owner_name = owner_name /\ contracts[j].client_name = client_name
    /\ FullyDraft(contracts[i]) /\ FullyDraft(contracts[j])

\* C17: a lookup that meets two drafts for the party pair picks neither: the
\* request ends with an error response, no image is written, no key pair is
\* generated and every row stays as it was.
C17_AmbiguousLookupFails ==
  /\ [](\A w \in Workers :
          (rq[w].pc = "done" /\ rq[w].response.status = 500
             /\ rq[w].response.error = "get() returned more than one Contract") =>
            rq[w].effects = {"lookup"})
  /\ [][\A w \in Workers :
          (rq[w].pc = "lookup" /\ rq'[w] # rq[w]
             /\ TwoDraftsFor(rq[w].request.owner_name, rq[w].request.client_name)) =>
            /\ rq'[w].pc = "done"
            /\ rq'[w].response.status = 500
            /\ files' = files
            /\ keys' = keys
            /\ contracts' = contracts]_vars

C17_Witness ==
  \E w \in Workers :
    /\ rq[w].pc = "done"
    /\ rq[w].response.status = 500
    /\ rq[w].response.error = "get() returned more than one Contract"
    /\ TwoDraftsFor(rq[w].request.owner_name, rq[w].request.client_name)
    /\ files = {}

\* C18: a request that located its contract and carries a well-formed image is
\* answered 200 whatever non-empty contract_text it sent: the contract is
\* signed, the signature is computed over the caller's text and the response
\* echoes that text as its message.
C18_SignsCallerText ==
  \A w \in Workers :
    (rq[w].pc = "done" /\ rq[w].seen # "none" /\ ~Malformed(rq[w].request.signature_image)) =>
      /\ rq[w].response.status = 200
      /\ rq[w].response.message = rq[w].request.contract_text
      /\ rq[w].response.signature[2] = rq[w].request.contract_text
      /\ rq[w].response.contract_status = "signed"
      /\ contracts[rq[w].response.contract_id].status = "signed"

\* a request has signed a contract with a text that is not the stored body
C18_Witness ==
  \E w \in Workers :
    /\ rq[w].pc = "done"
    /\ rq[w].response.status = 200
    /\ rq[w].response.message = "T1"
    /\ contracts[rq[w].response.contract_id].contract_text # "T1"
    /\ reqs = 1

\* C20: every delivery that passes createDraft inserts a row of its own, with
\* the delivered event's parties, whether or not a draft for them exists
\* already; the table holds exactly one row per such delivery.
C20_DraftPerDelivery ==
  /\ [](/\ Len(contracts) = Cardinality(created)
        /\ {p[2] : p \in created} = 1..Len(contracts)
        /\ \A p, q \in created : p[1] = q[1] => p = q)
  /\ [][(cb.pc = "create" /\ cb'.pc = "ack") =>
          /\ Len(contracts') = Len(contracts) + 1
          /\ SubSeq(contracts', 1, Len(contracts)) = contracts
          /\ contracts'[Len(contracts')].status = "draft"
          /\ contracts'[Len(contracts')].owner_name = cb.contract_data.owner_name
          /\ contracts'[Len(contracts')].client_name = cb.contract_data.client_name
          /\ contracts'[Len(contracts')].equipment = cb.contract_data.equipment
          /\ <<cb.tag, Len(contracts')>> \in created']_vars

\* the only published event was delivered twice, the first time with its draft
\* stored and its acknowledgment failed, and has two drafts
C20_Witness ==
  /\ published = 1
  /\ <<1, "ack">> \in errlog
  /\ created = {<<1, 1>>, <<2, 2>>}
  /\ Len(contracts) = 2
  /\ contracts[1].owner_name = contracts[2].owner_name
  /\ contracts[1].client_name = contracts[2].client_name
  /\ contracts[1].status = "draft" /\ contracts[2].status = "draft"

====
